---- MODULE Spec2Model ----
(***************************************************************************)
(* Model of the identity-reconciliation workflow (pg.AuthService.CreateAuth)*)
(* the read path (pg.UserService.GetUserByID), the entity mapper            *)
(* (pg.Tx.insert, pg.Tx.update) and the error-to-status mapping             *)
(* (http.encodeError) of jackcaldwell/template, over a relational store.    *)
(*                                                                          *)
(* The store is the committed content of the tables users and auths plus,   *)
(* for every open transaction, the rows it has written and not committed.   *)
(* A statement of a transaction reads the committed rows and the            *)
(* transaction's own rows.  Every store call (begin, select, prepare,       *)
(* execute, commit) is one step and may fail.                               *)
(***************************************************************************)
EXTENDS Integers, FiniteSets, Sequences, TLC

\* ---------------------------------------------------------------- bounds
NumCalls == 2          \* concurrent CreateAuth invocations
NumReads == 1          \* concurrent GetUserByID invocations
MaxClock == 3          \* the wall clock stops advancing here
MaxFaults == 1         \* store calls that fail, and contexts cancelled, in one behaviour
MaxOps == 3            \* insert / update calls on the record of the mapper specification
MaxWrap == 2           \* fmt.Errorf("...: %w", err) layers around an error

\* One second of wall-clock time, in clock ticks (Truncate(time.Second)).
TicksPerSecond == 2

Calls == 1..NumCalls
Reads == 1..NumReads

Sources == {"github"}
SourceIDs == {"s1", "s2"}
Emails == {"", "a@x"}
Names == {"ann"}
\* Auth.UserID as the caller sets it: 0 for "not known", or an id, which is
\* the id of a user row only once a user has been created.
UserIDs == {0, 1}
\* The (AccessToken, RefreshToken, Expiry) triple of invocation c: the provider
\* issues every login its own tokens, so the invocation names the triple.
TokensOf(c) == c

\* ---------------------------------------------------------------- errors
\* The error codes of package template.
ECONFLICT == "conflict"
EINTERNAL == "internal"
EINVALID == "invalid"
ENOTFOUND == "not_found"
ENOTIMPLEMENTED == "not_implemented"
EUNAUTHORIZED == "unauthorized"

Kinds == {ECONFLICT, EINTERNAL, EINVALID, ENOTFOUND, ENOTIMPLEMENTED, EUNAUTHORIZED}

\* An error value: its dynamic type, the Code and Message of a template.Error,
\* the text of any other error, and the error it wraps (<<>> for none).
Nil == [type |-> "nil", code |-> "", msg |-> "", cause |-> <<>>]
Pending == [type |-> "pending", code |-> "", msg |-> "", cause |-> <<>>]
\* An error of the sql driver, as returned by sqlx / database/sql.
DriverErr == [type |-> "driver", code |-> "", msg |-> "driver error", cause |-> <<>>]
\* sql.ErrTxDone: a statement, commit or rollback on a finished transaction.
ErrTxDone == [type |-> "driver", code |-> "", msg |-> "sql: transaction has already been committed or rolled back", cause |-> <<>>]
\* ctx.Err() of a cancelled context.
Canceled == [type |-> "context", code |-> "", msg |-> "context canceled", cause |-> <<>>]

\* Mutant of Wrap: the verb is %v, the new error does not wrap the original.
Wrap_NoCause(label, e) == [type |-> "wrap", code |-> "", msg |-> label, cause |-> <<>>]

\* fmt.Errorf(label + ": %w", e)
Wrap(label, e) == [type |-> "wrap", code |-> "", msg |-> label, cause |-> <<e>>]

\* &template.Error{Code: code, Message: message}
TemplateError(code, message) ==
    [type |-> "template", code |-> code, msg |-> message, cause |-> <<>>]

\* &template.Error{Code: template.ENOTFOUND, Message: message}
NotFound(message) == TemplateError(ENOTFOUND, message)

\* template.ErrorCode: "" for nil, the Code of the template.Error found in the
\* error's chain, EINTERNAL for any other error.
RECURSIVE ErrorCode(_)
ErrorCode(e) ==
    IF e = Nil THEN ""
    ELSE IF e.type = "template" THEN e.code
    ELSE IF e.cause # <<>> THEN ErrorCode(e.cause[1])
    ELSE EINTERNAL

\* template.ErrorMessage: "" for nil, the Message of the template.Error found
\* in the error's chain, a fixed text for any other error.
RECURSIVE ErrorMessage(_)
ErrorMessage(e) ==
    IF e = Nil THEN ""
    ELSE IF e.type = "template" THEN e.msg
    ELSE IF e.cause # <<>> THEN ErrorMessage(e.cause[1])
    ELSE "Internal error."

VARIABLES
    users,      \* committed rows of table users
    auths,      \* committed rows of table auths
    userSeq,    \* next value of users.id
    authSeq,    \* next value of auths.id
    clock,      \* time.Now(), in ticks
    openTxs,    \* transactions begun and neither committed nor rolled back
    faults,     \* store calls that have failed, per CreateAuth call
    pc,         \* position of each CreateAuth call
    arg,        \* the credential as the caller handed it to CreateAuth
    before,     \* the committed tables when CreateAuth was called
    auth,       \* the *template.Auth each CreateAuth call was handed
    tx,         \* the Tx of each CreateAuth call
    ret,        \* what each CreateAuth call returned
    rpc,        \* position of each GetUserByID call
    rid,        \* the id each GetUserByID call was handed
    ruser,      \* the *template.User each GetUserByID call holds
    rret,       \* what each GetUserByID call returned
    ctxDone,    \* the context handed to each CreateAuth call is cancelled
    probe       \* the record and table of the mapper specification, or the
                \* error response of the status specification

vars == <<users, auths, userSeq, authSeq, clock, openTxs, faults,
          pc, arg, before, auth, tx, ret, rpc, rid, ruser, rret, ctxDone, probe>>

\* ---------------------------------------------------------------- records
\* template.User (Auths is a nil slice until attachUserAuths fills it).
NewUser(name, email) ==
    [ID |-> 0, Name |-> name, Email |-> email,
     CreatedAt |-> 0, UpdatedAt |-> 0, Auths |-> <<>>]

\* template.Auth; User is <<>> for a nil pointer and <<u>> otherwise.
NewAuth(userID, user, source, sourceID, tokens) ==
    [ID |-> 0, UserID |-> userID, User |-> user,
     Source |-> source, SourceID |-> sourceID, Tokens |-> tokens,
     CreatedAt |-> 0, UpdatedAt |-> 0]

\* The row a record's db-tagged fields bind to (db:"-" fields are not bound).
UserRow(u) ==
    [id |-> u.ID, name |-> u.Name, email |-> u.Email,
     created_at |-> u.CreatedAt, updated_at |-> u.UpdatedAt]

AuthRow(a) ==
    [id |-> a.ID, user_id |-> a.UserID, source |-> a.Source,
     source_id |-> a.SourceID, tokens |-> a.Tokens,
     created_at |-> a.CreatedAt, updated_at |-> a.UpdatedAt]

\* SELECT * scanned into a template.User / template.Auth.
UserOfRow(r) ==
    [ID |-> r.id, Name |-> r.name, Email |-> r.email,
     CreatedAt |-> r.created_at, UpdatedAt |-> r.updated_at, Auths |-> <<>>]

AuthOfRow(r) ==
    [ID |-> r.id, UserID |-> r.user_id, User |-> <<>>,
     Source |-> r.source, SourceID |-> r.source_id, Tokens |-> r.tokens,
     CreatedAt |-> r.created_at, UpdatedAt |-> r.updated_at]

\* No transaction; in a Tx, ctx says that the transaction was begun with the
\* caller's context, whose cancellation rolls it back.
NoTx == [open |-> FALSE, ctx |-> FALSE, now |-> 0, users |-> {}, auths |-> {}]

\* db.Now().UTC().Truncate(time.Second)
Truncate(t) == t - (t % TicksPerSecond)

\* What a statement of transaction t reads.
UsersView(t) == users \cup t.users
AuthsView(t) == auths \cup t.auths

\* ---------------------------------------------------------------- lookups
\* Mutant of findAuthBySourceID: the WHERE clause lacks AND source_id = $2.
findAuthBySourceID_AnySourceID(t, source, sourceID) ==
    {r \in AuthsView(t) : r.source = source}

\* Rows matched by SELECT * FROM auths WHERE source = $1 AND source_id = $2.
findAuthBySourceID(t, source, sourceID) ==
    {r \in AuthsView(t) : r.source = source /\ r.source_id = sourceID}

\* Mutant of findUserByEmail: the WHERE clause names the wrong column.
findUserByEmail_WrongColumn(t, email) ==
    {r \in UsersView(t) : r.name = email}

\* Rows matched by SELECT * FROM users WHERE email = $1.
findUserByEmail(t, email) ==
    {r \in UsersView(t) : r.email = email}

\* Rows matched by SELECT * FROM users WHERE id = $1.
findUserByID(id) ==
    {r \in users : r.id = id}

\* Mutant of attachUserAuths: the SELECT has no WHERE clause.
attachUserAuths_NoWhere(id) == auths

\* Rows matched by SELECT * FROM auths WHERE user_id = $1.
attachUserAuths(id) ==
    {r \in auths : r.user_id = id}

\* What tx.Get hands a find function whose SELECT matches `rows`: one of the
\* rows, or sql.ErrNoRows, which the function returns as an ENOTFOUND error
\* with its own message.
Found(rows, message) ==
    IF rows = {}
    THEN {[row |-> <<>>, err |-> NotFound(message)]}
    ELSE {[row |-> <<r>>, err |-> Nil] : r \in rows}

\* The orders in which tx.Select may return the rows S into a slice.
Orders(S) ==
    {s \in [1..Cardinality(S) -> S] :
        \A i, j \in 1..Cardinality(S) : s[i] = s[j] => i = j}

\* ---------------------------------------------------------------- columns
\* The elements of a sequence.
Range(s) == {s[i] : i \in 1..Len(s)}

\* A struct field and its db tag (<<>> for a field without one).
Field(name, db) == [name |-> name, db |-> db]

\* The record types handed to the mapper: User and Auth, a type with the
\* columns update leaves alone, and types with a field that has no db tag, as
\* the first field, between others, and as the last.
Types == {"User", "Auth", "Scoped", "NoTagFirst", "NoTagMiddle", "NoTagLast"}

\* reflect.Type of a record type: its fields in the order of declaration.
\* Auth's Tokens stands for AccessToken, RefreshToken and Expiry.
Fields(type) ==
    CASE type = "User" ->
            <<Field("ID", <<"id,omitempty">>), Field("Name", <<"name">>),
              Field("Email", <<"email">>), Field("CreatedAt", <<"created_at">>),
              Field("UpdatedAt", <<"updated_at">>), Field("Auths", <<"-">>)>>
      [] type = "Auth" ->
            <<Field("ID", <<"id,omitempty">>), Field("UserID", <<"user_id">>),
              Field("User", <<"-">>), Field("Source", <<"source">>),
              Field("SourceID", <<"source_id">>), Field("Tokens", <<"tokens">>),
              Field("CreatedAt", <<"created_at">>),
              Field("UpdatedAt", <<"updated_at">>)>>
      [] type = "Scoped" ->
            <<Field("ID", <<"id,omitempty">>), Field("CompanyID", <<"company_id">>),
              Field("Title", <<"title">>), Field("Owner", <<"-">>),
              Field("CreatedBy", <<"created_by">>),
              Field("CreatedAt", <<"created_at">>),
              Field("UpdatedAt", <<"updated_at">>)>>
      [] type = "NoTagFirst" ->
            <<Field("Note", <<>>), Field("ID", <<"id,omitempty">>),
              Field("CreatedAt", <<"created_at">>),
              Field("UpdatedAt", <<"updated_at">>)>>
      [] type = "NoTagMiddle" ->
            <<Field("ID", <<"id,omitempty">>), Field("CreatedAt", <<"created_at">>),
              Field("Note", <<>>), Field("UpdatedAt", <<"updated_at">>)>>
      [] type = "NoTagLast" ->
            <<Field("ID", <<"id,omitempty">>), Field("CreatedAt", <<"created_at">>),
              Field("UpdatedAt", <<"updated_at">>), Field("Note", <<>>)>>

\* A record of type Scoped and a record of a type with an untagged field.
NewScoped(title) ==
    [Type |-> "Scoped", ID |-> 0, CompanyID |-> 1, Title |-> title, Owner |-> <<>>,
     CreatedBy |-> 1, CreatedAt |-> 0, UpdatedAt |-> 0]

NewNoTag(type) ==
    [Type |-> type, ID |-> 0, Note |-> "n", CreatedAt |-> 0, UpdatedAt |-> 0]

\* The dynamic type of the record behind entity interface{}.
TypeOf(entity) ==
    IF "Type" \in DOMAIN entity THEN entity.Type
    ELSE IF "Email" \in DOMAIN entity THEN "User"
    ELSE "Auth"

\* template.Errorf(code, format, args...): a template.Error with that code.
Errorf(code, message) == TemplateError(code, message)

\* The tags whose fields insert leaves out of its column list.
InsertSkips == {"id,omitempty", "-"}

\* Mutant of UpdateSkips: update leaves out what insert leaves out.
UpdateSkips_AsInsert == InsertSkips

\* The tags whose fields update leaves out of its SET list.
UpdateSkips ==
    {"id,omitempty", "-", "company_id", "created_at", "created_by"}

\* Mutant of columnsFrom: a field without a db tag is skipped.
RECURSIVE columnsFrom_SkipsUntagged(_, _, _)
columnsFrom_SkipsUntagged(fields, i, skips) ==
    IF i > Len(fields) THEN [err |-> Nil, columns |-> <<>>]
    ELSE LET rest == columnsFrom_SkipsUntagged(fields, i + 1, skips) IN
         IF fields[i].db = <<>> \/ fields[i].db[1] \in skips
         THEN rest
         ELSE [rest EXCEPT !.columns = <<fields[i].db[1]>> \o @]

\* The loop over the fields from field i on: the error for the first field
\* without a db tag, or the tags of the fields that are not skipped, in order.
RECURSIVE columnsFrom(_, _, _)
columnsFrom(fields, i, skips) ==
    IF i > Len(fields) THEN [err |-> Nil, columns |-> <<>>]
    ELSE IF fields[i].db = <<>>
    THEN [err |-> Errorf(EINTERNAL,
                         <<"Field '%s' does not contain a db tag.", fields[i].name>>),
          columns |-> <<>>]
    ELSE LET rest == columnsFrom(fields, i + 1, skips) IN
         IF rest.err # Nil THEN rest
         ELSE IF fields[i].db[1] \in skips THEN rest
         ELSE [rest EXCEPT !.columns = <<fields[i].db[1]>> \o @]

\* The name sqlx binds a field under: its db tag up to the comma.
TagName(db) == IF db = "id,omitempty" THEN "id" ELSE db

\* The column list insert builds for each record type, or its error.
InsertColumns == [t \in Types |-> columnsFrom(Fields(t), 1, InsertSkips)]

\* The SET list update builds for each record type, or its error.
UpdateColumns == [t \in Types |-> columnsFrom(Fields(t), 1, UpdateSkips)]

\* The field of each record type that sqlx binds to a named parameter.
BoundField ==
    [t \in Types |->
        LET tagged == {i \in 1..Len(Fields(t)) : Fields(t)[i].db # <<>>} IN
        [c \in {TagName(Fields(t)[i].db[1]) : i \in tagged} |->
            Fields(t)[CHOOSE i \in tagged : TagName(Fields(t)[i].db[1]) = c].name]]

\* The value sqlx binds to the named parameter :column.
Bound(entity, column) == entity[BoundField[TypeOf(entity)][column]]

\* ---------------------------------------------------------------- insert
InsertOutcomes == {"ok", "prepare_fails", "exec_fails"}

\* INSERT INTO table (columns) VALUES (:columns) RETURNING id
InsertSQL(table, columns) ==
    [verb |-> "INSERT", table |-> table, columns |-> columns, where |-> <<>>]

\* The value of a column that an INSERT does not name.
Null == "NULL"

\* The row the INSERT writes into table for entity: the generated id, the
\* value bound to each column the statement names, and Null for a column of
\* the table it does not name.
InsertedRow(entity, table, columns, id) ==
    LET named == Range(columns)
        field == BoundField[TypeOf(entity)]
        Val(c) == IF c \in named THEN entity[field[c]] ELSE Null
    IN  CASE table = "users" ->
                [id |-> id, name |-> Val("name"), email |-> Val("email"),
                 created_at |-> Val("created_at"), updated_at |-> Val("updated_at")]
          [] table = "auths" ->
                [id |-> id, user_id |-> Val("user_id"), source |-> Val("source"),
                 source_id |-> Val("source_id"), tokens |-> Val("tokens"),
                 created_at |-> Val("created_at"), updated_at |-> Val("updated_at")]
          [] table = "scoped" ->
                [id |-> id, company_id |-> Val("company_id"), title |-> Val("title"),
                 created_by |-> Val("created_by"),
                 created_at |-> Val("created_at"), updated_at |-> Val("updated_at")]
          [] table = "notes" ->
                [id |-> id, created_at |-> Val("created_at"),
                 updated_at |-> Val("updated_at")]

\* Mutant of insert: the generated id is not written back onto the record.
insert_NoWriteBack(entity, table, now, seq, outcome) ==
    LET stamped == [entity EXCEPT !.CreatedAt = now, !.UpdatedAt = now]
        cols == InsertColumns[TypeOf(stamped)]
        q == InsertSQL(table, cols.columns)
    IN  IF cols.err # Nil
        THEN [entity |-> stamped, rows |-> {}, err |-> cols.err, seq |-> seq,
              sql |-> <<>>]
        ELSE IF outcome = "prepare_fails"
        THEN [entity |-> stamped, rows |-> {}, err |-> DriverErr, seq |-> seq,
              sql |-> <<q>>]
        ELSE [entity |-> stamped,
              rows |-> IF outcome = "ok"
                       THEN {InsertedRow(stamped, table, cols.columns, seq)} ELSE {},
              err |-> Nil,
              seq |-> IF outcome = "ok" THEN seq + 1 ELSE seq,
              sql |-> <<q>>]

\* Tx.insert: the record after the call, the row written (if any), the error
\* returned, the sequence value afterwards and the statement handed to the
\* store (if any).  `now` is time.Now(), `seq` the table's next id, `outcome`
\* what the store does with the statement: tx.PrepareNamed fails, stmt.Get
\* fails (no row is written), or the row is written and its id returned.
insert(entity, table, now, seq, outcome) ==
    LET stamped == [entity EXCEPT !.CreatedAt = now, !.UpdatedAt = now]
        cols == InsertColumns[TypeOf(stamped)]
        q == InsertSQL(table, cols.columns)
        \* var id int; err = stmt.Get(&id, entity): id stays 0 on an error
        id == IF outcome = "ok" THEN seq ELSE 0
    IN  IF cols.err # Nil
        THEN [entity |-> stamped, rows |-> {}, err |-> cols.err, seq |-> seq,
              sql |-> <<>>]
        ELSE IF outcome = "prepare_fails"
        THEN [entity |-> stamped, rows |-> {}, err |-> DriverErr, seq |-> seq,
              sql |-> <<q>>]
        ELSE [entity |-> [stamped EXCEPT !.ID = id],
              rows |-> IF outcome = "ok"
                       THEN {InsertedRow(stamped, table, cols.columns, seq)} ELSE {},
              err |-> Nil,
              seq |-> IF outcome = "ok" THEN seq + 1 ELSE seq,
              sql |-> <<q>>]

\* ---------------------------------------------------------------- update
UpdateOutcomes == {"ok", "exec_fails"}

\* UPDATE table SET column = :column, ... WHERE id = :id
UpdateSQL(table, columns) ==
    [verb |-> "UPDATE", table |-> table, columns |-> columns, where |-> <<"id">>]

\* The SET list of update applied to row r: the columns update has built are
\* set to the values bound from the record.
SetColumns(r, entity, table) ==
    LET cols == UpdateColumns[TypeOf(entity)].columns IN
    [c \in DOMAIN r |-> IF c \in Range(cols) THEN Bound(entity, c) ELSE r[c]]

\* Mutant of update: created_at is not skipped when the SET list is built.
update_SetsCreatedAt(entity, table, now, rows, outcome) ==
    LET stamped == [entity EXCEPT !.UpdatedAt = now]
        cols == UpdateColumns[TypeOf(stamped)]
    IN  IF cols.err # Nil
        THEN [entity |-> stamped, rows |-> rows, err |-> cols.err, sql |-> <<>>]
        ELSE [entity |-> stamped,
              rows |-> IF outcome = "ok"
                       THEN {IF r.id = Bound(stamped, "id")
                             THEN [SetColumns(r, stamped, table)
                                     EXCEPT !.created_at = stamped.CreatedAt]
                             ELSE r : r \in rows}
                       ELSE rows,
              err |-> IF outcome = "ok" THEN Nil ELSE DriverErr,
              sql |-> <<UpdateSQL(table, cols.columns)>>]

\* Tx.update: the record after the call, the table afterwards, the error
\* returned and the statement handed to the store (if any).  `now` is
\* time.Now(), `rows` the table as the transaction sees it, `outcome` what
\* the store does with the UPDATE.
update(entity, table, now, rows, outcome) ==
    LET stamped == [entity EXCEPT !.UpdatedAt = now]
        cols == UpdateColumns[TypeOf(stamped)]
    IN  IF cols.err # Nil
        THEN [entity |-> stamped, rows |-> rows, err |-> cols.err, sql |-> <<>>]
        ELSE [entity |-> stamped,
              rows |-> IF outcome = "ok"
                       THEN {IF r.id = Bound(stamped, "id")
                             THEN SetColumns(r, stamped, table)
                             ELSE r : r \in rows}
                       ELSE rows,
              err |-> IF outcome = "ok" THEN Nil ELSE DriverErr,
              sql |-> <<UpdateSQL(table, cols.columns)>>]

\* ---------------------------------------------------------------- store faults
RECURSIVE SumOver(_, _)
SumOver(f, S) ==
    IF S = {} THEN 0
    ELSE LET x == CHOOSE y \in S : TRUE IN f[x] + SumOver(f, S \ {x})

\* Store calls that have failed so far, in CreateAuth and in GetUserByID, and
\* contexts cancelled.
TotalFaults ==
    SumOver(faults, Calls) + Cardinality({r \in Reads : rret[r] = DriverErr})
        + Cardinality({c \in Calls : ctxDone[c]})

\* A store call of CreateAuth call c fails / does not fail.
Fault(c) ==
    /\ TotalFaults < MaxFaults
    /\ faults' = [faults EXCEPT ![c] = @ + 1]

NoFault == faults' = faults

\* A store call of a GetUserByID call fails.
RFault == TotalFaults < MaxFaults

\* ---------------------------------------------------------------- CreateAuth
\* The credentials a caller may hand to CreateAuth.
AuthInputs(c) ==
    {NewAuth(uid, u, s, sid, TokensOf(c)) :
        uid \in UserIDs,
        u \in {<<>>} \cup {<<NewUser(n, e)>> : n \in Names, e \in Emails},
        s \in Sources, sid \in SourceIDs}

\* Mutant of Abort: `defer tx.Rollback()` is missing, the transaction stays
\* open with its rows.
Abort_NoRollback(c, e) ==
    /\ pc' = [pc EXCEPT ![c] = "done"]
    /\ ret' = [ret EXCEPT ![c] = e]
    /\ UNCHANGED <<tx, openTxs>>

\* `return err` with `defer tx.Rollback()` pending: the rows the transaction
\* wrote are discarded and the transaction is closed (a transaction that is
\* finished already stays so, Rollback's sql.ErrTxDone is dropped).
Abort(c, e) ==
    /\ pc' = [pc EXCEPT ![c] = "done"]
    /\ ret' = [ret EXCEPT ![c] = e]
    /\ tx' = [tx EXCEPT ![c] = NoTx]
    /\ openTxs' = openTxs - (IF tx[c].open THEN 1 ELSE 0)

\* Mutant of beginTx: the transaction is begun with context.Background().
beginTx_Background(now) ==
    [open |-> TRUE, ctx |-> FALSE, now |-> Truncate(now),
     users |-> {}, auths |-> {}]

\* DB.beginTx: the Tx of a transaction begun at wall-clock time `now` with
\* db.db.BeginTxx(ctx, opts).
beginTx(now) ==
    [open |-> TRUE, ctx |-> TRUE, now |-> Truncate(now),
     users |-> {}, auths |-> {}]

\* The names a caller may give a transient User for an email that a committed
\* user row has under another name.
OtherNames == {"bob"}

\* Credentials with a transient User that has the email of a committed user
\* and another name.
AdoptInputs(c) ==
    {NewAuth(0, <<NewUser(n, u.email)>>, s, sid, TokensOf(c)) :
        u \in {v \in users : v.email # ""}, n \in OtherNames,
        s \in Sources, sid \in SourceIDs}

\* CreateAuth is called with a credential out of inputs and begins its
\* transaction.
CreateAuthWith(c, inputs) ==
    /\ pc[c] = "idle"
    /\ \A d \in Calls : d < c => pc[d] # "idle"
    /\ \E a \in inputs :
          /\ auth' = [auth EXCEPT ![c] = a]
          /\ arg' = [arg EXCEPT ![c] = a]
    /\ before' = [before EXCEPT ![c] = [users |-> users, auths |-> auths]]
    /\ \/ /\ NoFault
          /\ pc' = [pc EXCEPT ![c] = "findAuth"]
          /\ tx' = [tx EXCEPT ![c] = beginTx(clock)]
          /\ openTxs' = openTxs + 1
          /\ UNCHANGED ret
       \/ /\ Fault(c)
          /\ pc' = [pc EXCEPT ![c] = "done"]
          /\ ret' = [ret EXCEPT ![c] = DriverErr]
          /\ UNCHANGED <<tx, openTxs>>
    /\ UNCHANGED <<users, auths, userSeq, authSeq, clock, rpc, rid, ruser, rret,
                   ctxDone, probe>>

\* CreateAuth is called with a credential and begins its transaction.
BeginTx(c) == CreateAuthWith(c, AuthInputs(c))

\* CreateAuth is called with a transient User whose email a committed user
\* has under another name, and begins its transaction.
BeginTxAdopting(c) == CreateAuthWith(c, AdoptInputs(c))

\* Mutant of OnAuthFound: the credential exists, nothing is left to insert.
OnAuthFound_SkipInsert(c) ==
    /\ pc' = [pc EXCEPT ![c] = "commit"]
    /\ UNCHANGED <<ret, tx, openTxs>>

\* Mutant of AfterFindAuth: the condition is auth.User != nil alone.
AfterFindAuth_AnyUserID(c) ==
    /\ pc' = [pc EXCEPT ![c] =
            IF auth[c].User # <<>> THEN "findUser" ELSE "insertAuth"]
    /\ UNCHANGED <<ret, tx, openTxs>>

\* if auth.UserID == 0 && auth.User != nil: where CreateAuth goes on after
\* the lookup of the credential.
AfterFindAuth(c) ==
    /\ pc' = [pc EXCEPT ![c] =
            IF auth[c].UserID = 0 /\ auth[c].User # <<>>
            THEN "findUser" ELSE "insertAuth"]
    /\ UNCHANGED <<ret, tx, openTxs>>

\* The branch of CreateAuth for err == nil after the lookup of the credential:
\* it is empty (its comment says "update it with the new tokens and expiry"),
\* the call goes on as it does when there is no such credential.
OnAuthFound(c) == AfterFindAuth(c)

\* A store call of c's transaction answers `res` or fails with a driver error.
Answers(res) == {res} \cup {[row |-> <<>>, err |-> DriverErr]}

\* tx.findAuthBySourceID(ctx, auth.Source, auth.SourceID) and the branches on
\* its error.
FindAuth(c) ==
    /\ pc[c] = "findAuth"
    /\ tx[c].open
    /\ \E found \in Found(findAuthBySourceID(tx[c], auth[c].Source, auth[c].SourceID),
                          "Auth not found.") :
       \E res \in Answers(found) :
          /\ IF res.err = DriverErr THEN Fault(c) ELSE NoFault
          /\ IF res.err = Nil
             THEN OnAuthFound(c)
             ELSE IF ErrorCode(res.err) # ENOTFOUND
             THEN Abort(c, Wrap("find auth by source id failed", res.err))
             ELSE AfterFindAuth(c)
    /\ UNCHANGED <<users, auths, userSeq, authSeq, clock, auth, rpc, rid, ruser, rret,
                   arg, before, ctxDone, probe>>

\* tx.findUserByEmail(ctx, auth.User.Email) and the branches on its error.
FindUser(c) ==
    /\ pc[c] = "findUser"
    /\ tx[c].open
    /\ \E found \in Found(findUserByEmail(tx[c], auth[c].User[1].Email),
                          "User not found.") :
       \E res \in Answers(found) :
          /\ IF res.err = DriverErr THEN Fault(c) ELSE NoFault
          /\ IF res.err = Nil
             THEN \* auth.User = user; auth.UserID = auth.User.ID
                  /\ auth' = [auth EXCEPT ![c].User = <<UserOfRow(res.row[1])>>,
                                           ![c].UserID = res.row[1].id]
                  /\ pc' = [pc EXCEPT ![c] = "insertAuth"]
                  /\ UNCHANGED <<ret, tx, openTxs>>
             ELSE IF ErrorCode(res.err) # ENOTFOUND
             THEN /\ Abort(c, Wrap("find user by email failed", res.err))
                  /\ UNCHANGED auth
             ELSE /\ pc' = [pc EXCEPT ![c] = "insertUser"]
                  /\ UNCHANGED <<auth, ret, tx, openTxs>>
    /\ UNCHANGED <<users, auths, userSeq, authSeq, clock, rpc, rid, ruser, rret,
                   arg, before, ctxDone, probe>>

\* tx.insert(ctx, auth.User, "users") and auth.UserID = auth.User.ID
InsertUser(c) ==
    /\ pc[c] = "insertUser"
    /\ tx[c].open
    /\ \E o \in InsertOutcomes :
        LET res == insert(auth[c].User[1], "users", clock, userSeq, o) IN
        /\ IF o = "ok" THEN NoFault ELSE Fault(c)
        /\ userSeq' = res.seq
        /\ IF res.err # Nil
           THEN /\ auth' = [auth EXCEPT ![c].User = <<res.entity>>]
                /\ Abort(c, Wrap("cannot create user", res.err))
           ELSE /\ auth' = [auth EXCEPT ![c].User = <<res.entity>>,
                                        ![c].UserID = res.entity.ID]
                /\ tx' = [tx EXCEPT ![c].users = @ \cup res.rows]
                /\ pc' = [pc EXCEPT ![c] = "insertAuth"]
                /\ UNCHANGED <<ret, openTxs>>
    /\ UNCHANGED <<users, auths, authSeq, clock, rpc, rid, ruser, rret, arg, before,
                   ctxDone, probe>>

\* tx.insert(ctx, auth, "auths")
InsertAuth(c) ==
    /\ pc[c] = "insertAuth"
    /\ tx[c].open
    /\ \E o \in InsertOutcomes :
        LET res == insert(auth[c], "auths", clock, authSeq, o) IN
        /\ IF o = "ok" THEN NoFault ELSE Fault(c)
        /\ authSeq' = res.seq
        /\ auth' = [auth EXCEPT ![c] = res.entity]
        /\ IF res.err # Nil
           THEN Abort(c, res.err)
           ELSE /\ tx' = [tx EXCEPT ![c].auths = @ \cup res.rows]
                /\ pc' = [pc EXCEPT ![c] = "commit"]
                /\ UNCHANGED <<ret, openTxs>>
    /\ UNCHANGED <<users, auths, userSeq, clock, rpc, rid, ruser, rret, arg, before,
                   ctxDone, probe>>

\* Mutant of Commit: the user row the credential refers to takes the name of
\* the transient User the caller passed in.
Commit_RenamesAdopted(c) ==
    /\ pc[c] = "commit"
    /\ tx[c].open
    /\ ~(tx[c].ctx /\ ctxDone[c])
    /\ \/ /\ NoFault
          /\ users' = {IF u.id = auth[c].UserID /\ arg[c].User # <<>>
                       THEN [u EXCEPT !.name = arg[c].User[1].Name]
                       ELSE u : u \in users} \cup tx[c].users
          /\ auths' = auths \cup tx[c].auths
          /\ pc' = [pc EXCEPT ![c] = "done"]
          /\ ret' = [ret EXCEPT ![c] = Nil]
          /\ tx' = [tx EXCEPT ![c] = NoTx]
          /\ openTxs' = openTxs - 1
       \/ /\ Fault(c)
          /\ Abort(c, DriverErr)
          /\ UNCHANGED <<users, auths>>
    /\ UNCHANGED <<userSeq, authSeq, clock, auth, rpc, rid, ruser, rret, arg, before,
                   ctxDone, probe>>

\* return tx.Commit(), on a transaction that is open and whose context is
\* not cancelled.
Commit(c) ==
    /\ pc[c] = "commit"
    /\ tx[c].open
    /\ ~(tx[c].ctx /\ ctxDone[c])
    /\ \/ /\ NoFault
          /\ users' = users \cup tx[c].users
          /\ auths' = auths \cup tx[c].auths
          /\ pc' = [pc EXCEPT ![c] = "done"]
          /\ ret' = [ret EXCEPT ![c] = Nil]
          /\ tx' = [tx EXCEPT ![c] = NoTx]
          /\ openTxs' = openTxs - 1
       \/ /\ Fault(c)
          /\ Abort(c, DriverErr)
          /\ UNCHANGED <<users, auths>>
    /\ UNCHANGED <<userSeq, authSeq, clock, auth, rpc, rid, ruser, rret, arg, before,
                   ctxDone, probe>>

\* ---------------------------------------------------------------- GetUserByID
\* GetUserByID is called with an id and begins its transaction.
RBeginTx(r) ==
    /\ rpc[r] = "idle"
    /\ \E id \in 1..userSeq : rid' = [rid EXCEPT ![r] = id]
    /\ \/ /\ rpc' = [rpc EXCEPT ![r] = "findUser"]
          /\ openTxs' = openTxs + 1
          /\ UNCHANGED rret
       \/ /\ RFault
          /\ rpc' = [rpc EXCEPT ![r] = "done"]
          /\ rret' = [rret EXCEPT ![r] = DriverErr]
          /\ UNCHANGED openTxs
    /\ UNCHANGED <<users, auths, userSeq, authSeq, clock, faults, pc, arg, before,
                   auth, tx, ret, ruser, ctxDone, probe>>

\* The SELECT of tx.findUserByID; on an error findUserByID returns nil, err
\* and so does GetUserByID.
RFindUser(r) ==
    /\ rpc[r] = "findUser"
    /\ \E found \in Found(findUserByID(rid[r]), "User not found.") :
       \E res \in Answers(found) :
          /\ res.err = DriverErr => RFault
          /\ IF res.err = Nil
             THEN /\ ruser' = [ruser EXCEPT ![r] = <<UserOfRow(res.row[1])>>]
                  /\ rpc' = [rpc EXCEPT ![r] = "attach"]
                  /\ UNCHANGED rret
             ELSE /\ rpc' = [rpc EXCEPT ![r] = "done"]
                  /\ rret' = [rret EXCEPT ![r] = res.err]
                  /\ UNCHANGED ruser
    /\ UNCHANGED <<users, auths, userSeq, authSeq, clock, openTxs, faults, pc, arg,
                   before, auth, tx, ret, rid, ctxDone, probe>>

\* tx.attachUserAuths at the end of tx.findUserByID; on an error
\* findUserByID returns nil, err and so does GetUserByID.
RAttach(r) ==
    /\ rpc[r] = "attach"
    /\ \/ /\ \E s \in Orders({AuthOfRow(a) : a \in attachUserAuths(ruser[r][1].ID)}) :
                ruser' = [ruser EXCEPT ![r][1].Auths = s]
          /\ rpc' = [rpc EXCEPT ![r] = "attachAgain"]
          /\ UNCHANGED rret
       \/ /\ RFault
          /\ ruser' = [ruser EXCEPT ![r] = <<>>]
          /\ rpc' = [rpc EXCEPT ![r] = "done"]
          /\ rret' = [rret EXCEPT ![r] = DriverErr]
    /\ UNCHANGED <<users, auths, userSeq, authSeq, clock, openTxs, faults, pc, arg,
                   before, auth, tx, ret, rid, ctxDone, probe>>

\* tx.attachUserAuths in GetUserByID; on an error it returns user, err.
\* GetUserByID returns without committing or rolling back its transaction.
RAttachAgain(r) ==
    /\ rpc[r] = "attachAgain"
    /\ \/ /\ \E s \in Orders({AuthOfRow(a) : a \in attachUserAuths(ruser[r][1].ID)}) :
                ruser' = [ruser EXCEPT ![r][1].Auths = s]
          /\ rret' = [rret EXCEPT ![r] = Nil]
       \/ /\ RFault
          /\ rret' = [rret EXCEPT ![r] = DriverErr]
          /\ UNCHANGED ruser
    /\ rpc' = [rpc EXCEPT ![r] = "done"]
    /\ UNCHANGED <<users, auths, userSeq, authSeq, clock, openTxs, faults, pc, arg,
                   before, auth, tx, ret, rid, ctxDone, probe>>

\* ---------------------------------------------------------------- cancellation
\* The caller cancels the context it handed to CreateAuth call c, which is
\* running.
Cancel(c) ==
    /\ pc[c] \notin {"idle", "done"}
    /\ ~ctxDone[c]
    /\ TotalFaults < MaxFaults
    /\ ctxDone' = [ctxDone EXCEPT ![c] = TRUE]
    /\ UNCHANGED <<users, auths, userSeq, authSeq, clock, openTxs, faults,
                   pc, arg, before, auth, tx, ret, rpc, rid, ruser, rret, probe>>

\* database/sql rolls back a transaction begun with BeginTxx(ctx, opts) once
\* ctx is cancelled, at some time after the cancellation.
AwaitDone(c) ==
    /\ ctxDone[c]
    /\ tx[c].open
    /\ tx[c].ctx
    /\ tx' = [tx EXCEPT ![c].open = FALSE, ![c].users = {}, ![c].auths = {}]
    /\ openTxs' = openTxs - 1
    /\ UNCHANGED <<users, auths, userSeq, authSeq, clock, faults,
                   pc, arg, before, auth, ret, rpc, rid, ruser, rret, ctxDone, probe>>

\* The next store call of CreateAuth call c on its transaction, which was
\* rolled back: tx.Get, tx.PrepareNamed and tx.Commit fail with sql.ErrTxDone,
\* and CreateAuth returns as it does for any error of that call (insert has
\* stamped the record before it prepares the statement).
TxDone(c) ==
    /\ pc[c] \notin {"idle", "done"}
    /\ ~tx[c].open
    /\ CASE pc[c] = "findAuth" ->
            /\ Abort(c, Wrap("find auth by source id failed", ErrTxDone))
            /\ UNCHANGED auth
         [] pc[c] = "findUser" ->
            /\ Abort(c, Wrap("find user by email failed", ErrTxDone))
            /\ UNCHANGED auth
         [] pc[c] = "insertUser" ->
            /\ auth' = [auth EXCEPT ![c].User =
                    <<insert(auth[c].User[1], "users", clock, userSeq, "prepare_fails").entity>>]
            /\ Abort(c, Wrap("cannot create user", ErrTxDone))
         [] pc[c] = "insertAuth" ->
            /\ auth' = [auth EXCEPT ![c] =
                    insert(auth[c], "auths", clock, authSeq, "prepare_fails").entity]
            /\ Abort(c, ErrTxDone)
         [] pc[c] = "commit" ->
            /\ Abort(c, ErrTxDone)
            /\ UNCHANGED auth
    /\ UNCHANGED <<users, auths, userSeq, authSeq, clock, faults, arg, before,
                   rpc, rid, ruser, rret, ctxDone, probe>>

\* return tx.Commit() on an open transaction whose context is cancelled:
\* Commit returns ctx.Err() and commits nothing, the deferred Rollback closes
\* the transaction.
CommitAfterCancel(c) ==
    /\ pc[c] = "commit"
    /\ tx[c].open
    /\ tx[c].ctx
    /\ ctxDone[c]
    /\ Abort(c, Canceled)
    /\ UNCHANGED <<users, auths, userSeq, authSeq, clock, faults, arg, before, auth,
                   rpc, rid, ruser, rret, ctxDone, probe>>

\* ---------------------------------------------------------------- the mapper on one record
\* No record and no response yet.
NoProbe == [op |-> "none"]

\* The records a caller may hand to the mapper, each with its table.
MapperRecords ==
    {[table |-> "users", entity |-> NewUser(n, e)] : n \in Names, e \in Emails}
    \cup {[table |-> "auths", entity |-> NewAuth(1, <<>>, s, sid, 1)] :
            s \in Sources, sid \in SourceIDs}
    \cup {[table |-> "scoped", entity |-> NewScoped("t")]}
    \cup {[table |-> "notes", entity |-> NewNoTag(t)] :
            t \in {"NoTagFirst", "NoTagMiddle", "NoTagLast"}}

\* A caller makes a record for a table that is empty so far; probe holds the
\* record, its table as the caller's transaction sees it, the table's next
\* id, the number of mapper calls made, and the error and the statement of
\* the last one.
MNew ==
    /\ probe = NoProbe
    /\ \E m \in MapperRecords :
          probe' = [op |-> "new", n |-> 0, table |-> m.table, entity |-> m.entity,
                    rows |-> {}, seq |-> 1, err |-> Nil, sql |-> <<>>]
    /\ UNCHANGED <<users, auths, userSeq, authSeq, clock, openTxs, faults,
                   pc, arg, before, auth, tx, ret, rpc, rid, ruser, rret, ctxDone>>

\* The caller changes a field of the record that is a column of its table.
MEdit ==
    /\ probe # NoProbe
    /\ \/ /\ probe.table = "users"
          /\ \E e \in Emails \ {probe.entity.Email} :
                probe' = [probe EXCEPT !.op = "edit", !.entity.Email = e]
       \/ /\ probe.table = "auths"
          /\ \E sid \in SourceIDs \ {probe.entity.SourceID} :
                probe' = [probe EXCEPT !.op = "edit", !.entity.SourceID = sid]
    /\ UNCHANGED <<users, auths, userSeq, authSeq, clock, openTxs, faults,
                   pc, arg, before, auth, tx, ret, rpc, rid, ruser, rret, ctxDone>>

\* tx.insert(ctx, entity, table)
MInsert ==
    /\ probe # NoProbe
    /\ probe.n < MaxOps
    /\ \E o \in InsertOutcomes :
        LET res == insert(probe.entity, probe.table, clock, probe.seq, o) IN
        probe' = [probe EXCEPT !.op = "insert", !.n = @ + 1,
                               !.entity = res.entity,
                               !.rows = @ \cup res.rows,
                               !.seq = res.seq,
                               !.err = res.err,
                               !.sql = res.sql]
    /\ UNCHANGED <<users, auths, userSeq, authSeq, clock, openTxs, faults,
                   pc, arg, before, auth, tx, ret, rpc, rid, ruser, rret, ctxDone>>

\* tx.update(ctx, entity, table)
MUpdate ==
    /\ probe # NoProbe
    /\ probe.n < MaxOps
    /\ \E o \in UpdateOutcomes :
        LET res == update(probe.entity, probe.table, clock, probe.rows, o) IN
        probe' = [probe EXCEPT !.op = "update", !.n = @ + 1,
                               !.entity = res.entity,
                               !.rows = res.rows,
                               !.err = res.err,
                               !.sql = res.sql]
    /\ UNCHANGED <<users, auths, userSeq, authSeq, clock, openTxs, faults,
                   pc, arg, before, auth, tx, ret, rpc, rid, ruser, rret, ctxDone>>

\* ---------------------------------------------------------------- status mapping
\* The operation labels CreateAuth wraps errors with.
Labels ==
    {"find auth by source id failed", "find user by email failed",
     "cannot create user"}

Messages == {"Auth not found.", "User not found."}

\* The strings found as a template.Error's Code: the six kinds, and the text
\* decodeSayHelloRequest passes to template.Errorf in the place of the code.
Codes == Kinds \cup {"Invalid value for param 'name'."}

\* The errors a handler may hand to encodeError, wrapped at most d times.
RECURSIVE ErrorsUpTo(_)
ErrorsUpTo(d) ==
    IF d = 0
    THEN {TemplateError(c, m) : c \in Codes, m \in Messages}
            \cup {DriverErr, ErrTxDone, Canceled}
    ELSE LET E == ErrorsUpTo(d - 1) IN
         E \cup {Wrap(l, e) : l \in Labels, e \in E}

\* var codes: the HTTP status of each application error code.
codes ==
    (ECONFLICT :> 409) @@ (EINVALID :> 400) @@ (ENOTFOUND :> 404)
        @@ (ENOTIMPLEMENTED :> 501) @@ (EUNAUTHORIZED :> 401)
        @@ (EINTERNAL :> 500)

\* Mutant of ErrorStatusCode: ENOTIMPLEMENTED is not looked up.
ErrorStatusCode_NoNotImplemented(code) ==
    IF code \in DOMAIN codes \ {ENOTIMPLEMENTED} THEN codes[code] ELSE 500

\* ErrorStatusCode: the status of a code, StatusInternalServerError for a
\* code that is not in the table.
ErrorStatusCode(code) ==
    IF code \in DOMAIN codes THEN codes[code] ELSE 500

\* encodeError: the response written for err.
encodeError(err) ==
    [op |-> "encodeError", err |-> err,
     code |-> ErrorCode(err),
     contentType |-> "application/json",
     status |-> ErrorStatusCode(ErrorCode(err)),
     body |-> [error |-> ErrorMessage(err)]]

\* A handler's response carries an error, encodeResponse calls encodeError.
EncodeError ==
    /\ probe = NoProbe
    /\ \E e \in ErrorsUpTo(MaxWrap) : probe' = encodeError(e)
    /\ UNCHANGED <<users, auths, userSeq, authSeq, clock, openTxs, faults,
                   pc, arg, before, auth, tx, ret, rpc, rid, ruser, rret, ctxDone>>

\* mux.Vars(r): the route variables of a request, with or without "name".
RouteVars == {[k \in K |-> n] : K \in SUBSET {"name"}, n \in Names}

\* decodeSayHelloRequest: the request and the error returned for a request
\* with route variables routeVars.  Errorf is called with the message in the place
\* of the code and EINVALID in the place of the format.
decodeSayHelloRequest(routeVars) ==
    IF "name" \notin DOMAIN routeVars
    THEN [op |-> "decodeSayHelloRequest", vars |-> routeVars, request |-> <<>>,
          err |-> Errorf("Invalid value for param 'name'.", EINVALID)]
    ELSE [op |-> "decodeSayHelloRequest", vars |-> routeVars,
          request |-> <<[Name |-> routeVars["name"]]>>, err |-> Nil]

\* The transport decodes a GET /api/hello request.
DecodeSayHelloRequest ==
    /\ probe = NoProbe
    /\ \E v \in RouteVars : probe' = decodeSayHelloRequest(v)
    /\ UNCHANGED <<users, auths, userSeq, authSeq, clock, openTxs, faults,
                   pc, arg, before, auth, tx, ret, rpc, rid, ruser, rret, ctxDone>>

\* ---------------------------------------------------------------- time
\* Wall-clock time passes.
Tick ==
    /\ clock < MaxClock
    /\ clock' = clock + 1
    /\ UNCHANGED <<users, auths, userSeq, authSeq, openTxs, faults,
                   pc, arg, before, auth, tx, ret, rpc, rid, ruser, rret,
                   ctxDone, probe>>

\* ---------------------------------------------------------------- specifications
Init ==
    /\ users = {}
    /\ auths = {}
    /\ userSeq = 1
    /\ authSeq = 1
    /\ clock = TicksPerSecond
    /\ openTxs = 0
    /\ faults = [c \in Calls |-> 0]
    /\ pc = [c \in Calls |-> "idle"]
    /\ arg = [c \in Calls |-> NewAuth(0, <<>>, "github", "s1", 0)]
    /\ before = [c \in Calls |-> [users |-> {}, auths |-> {}]]
    /\ auth = [c \in Calls |-> NewAuth(0, <<>>, "github", "s1", 0)]
    /\ tx = [c \in Calls |-> NoTx]
    /\ ret = [c \in Calls |-> Pending]
    /\ rpc = [r \in Reads |-> "idle"]
    /\ rid = [r \in Reads |-> 0]
    /\ ruser = [r \in Reads |-> <<>>]
    /\ rret = [r \in Reads |-> Pending]
    /\ ctxDone = [c \in Calls |-> FALSE]
    /\ probe = NoProbe

\* Concurrent CreateAuth calls.
Next ==
    \/ \E c \in Calls : BeginTx(c)
    \/ \E c \in Calls : FindAuth(c)
    \/ \E c \in Calls : FindUser(c)
    \/ \E c \in Calls : InsertUser(c)
    \/ \E c \in Calls : InsertAuth(c)
    \/ \E c \in Calls : Commit(c)

Spec == Init /\ [][Next]_vars

\* Concurrent CreateAuth calls, some with a transient User that names a
\* committed user differently.
NextAdopt ==
    \/ Next
    \/ \E c \in Calls : BeginTxAdopting(c)

SpecAdopt == Init /\ [][NextAdopt]_vars

\* Concurrent CreateAuth calls while wall-clock time passes.
NextClock ==
    \/ Next
    \/ Tick

SpecClock == Init /\ [][NextClock]_vars

\* Concurrent CreateAuth and GetUserByID calls.
NextRead ==
    \/ Next
    \/ \E r \in Reads : RBeginTx(r)
    \/ \E r \in Reads : RFindUser(r)
    \/ \E r \in Reads : RAttach(r)
    \/ \E r \in Reads : RAttachAgain(r)

SpecRead == Init /\ [][NextRead]_vars

\* Concurrent CreateAuth calls whose callers may cancel their contexts.
NextCancel ==
    \/ Next
    \/ \E c \in Calls : Cancel(c)
    \/ \E c \in Calls : AwaitDone(c)
    \/ \E c \in Calls : TxDone(c)
    \/ \E c \in Calls : CommitAfterCancel(c)

SpecCancel == Init /\ [][NextCancel]_vars

\* insert and update applied to one record while wall-clock time passes.
NextMapper ==
    \/ MNew
    \/ MEdit
    \/ MInsert
    \/ MUpdate
    \/ Tick

SpecMapper == Init /\ [][NextMapper]_vars

\* An error response is written.
NextStatus ==
    \/ EncodeError
    \/ DecodeSayHelloRequest

SpecStatus == Init /\ [][NextStatus]_vars

\* ---------------------------------------------------------------- properties
\* The (Source, SourceID) of a credential row is that of record a.
SamePair(r, a) == r.source = a.Source /\ r.source_id = a.SourceID

\* CreateAuth call c returns in this step.
Returns(c) == pc[c] # "done" /\ pc'[c] = "done"

\* CreateAuth call c commits in this step and returns nil.
Commits(c) == pc[c] = "commit" /\ pc'[c] = "done" /\ ret'[c] = Nil

\* CreateAuth call c has returned nil.
Succeeded(c) == pc[c] = "done" /\ ret[c] = Nil

\* The caller of c did not know the user id and attached a transient User.
NewUserAttached(c) == arg[c].UserID = 0 /\ arg[c].User # <<>>

C1_Pre(c) ==
    /\ NewUserAttached(c)
    /\ faults[c] = 0
    /\ \A r \in auths : ~SamePair(r, arg[c])
    /\ \A u \in users : u.email # arg[c].User[1].Email

\* C1: a CreateAuth call with UserID = 0, an attached User, a (Source,
\* SourceID) and an email that match no committed row up to its commit, and no
\* failing store call, commits exactly one new user row and exactly one new
\* credential row, and the returned credential's UserID is the new user's id.
C1_CreatesUserAndCredential ==
    [][\A c \in Calls :
        (Commits(c) /\ C1_Pre(c)) =>
            /\ Cardinality(users') = Cardinality(users) + 1
            /\ Cardinality(auths') = Cardinality(auths) + 1
            /\ \E u \in users' \ users :
                /\ u.id = auth'[c].UserID
                /\ u.email = arg[c].User[1].Email
            /\ \E a \in auths' \ auths :
                /\ a.id = auth'[c].ID
                /\ a.user_id = auth'[c].UserID
                /\ SamePair(a, arg[c])]_vars

C1_Witness ==
    \E c \in Calls :
        /\ Succeeded(c)
        /\ NewUserAttached(c)
        /\ faults[c] = 0
        /\ before[c] = [users |-> {}, auths |-> {}]
        /\ Cardinality(users) = 1
        /\ Cardinality(auths) = 1
        /\ \E u \in users : u.id = auth[c].UserID

\* A user row committed when c was called carries the attached User's email.
C2_Pre(c) ==
    /\ NewUserAttached(c)
    /\ \E u \in before[c].users : u.email = arg[c].User[1].Email

\* C2: a CreateAuth call with UserID = 0 and an attached User whose email is
\* that of a user row committed before the call adds no user row (no step of
\* it changes the committed users), and when it commits, the returned
\* credential's UserID and the user_id of the credential row it adds are the
\* id of a committed user row with that email.
C2_AdoptsExistingUser ==
    [][\A c \in Calls :
        /\ (pc[c] # "idle" /\ pc'[c] # pc[c] /\ C2_Pre(c)) => users' = users
        /\ (Commits(c) /\ C2_Pre(c)) =>
            /\ \E u \in users :
                /\ u.email = arg[c].User[1].Email
                /\ u.id = auth'[c].UserID
            /\ \A a \in auths' \ auths : a.user_id = auth'[c].UserID]_vars

C2_Witness ==
    \E c \in Calls :
        /\ Succeeded(c)
        /\ C2_Pre(c)
        /\ \E a \in auths \ before[c].auths :
            /\ a.id = auth[c].ID
            /\ \E u \in before[c].users : u.id = a.user_id

\* C3: when CreateAuth is called with the (Source, SourceID) of a credential
\* row committed by an earlier call and returns nil, there is still one row
\* with that pair and it carries the tokens and expiry of the second call.
C3_SecondCallUpdatesTokens ==
    \A c \in Calls :
        (Succeeded(c) /\ \E r \in before[c].auths : SamePair(r, arg[c])) =>
            /\ Cardinality({r \in auths : SamePair(r, arg[c])}) = 1
            /\ \A r \in auths : SamePair(r, arg[c]) => r.tokens = arg[c].Tokens

\* C4: the committed table auths holds at most one row per (Source, SourceID).
C4_OneCredentialPerSource ==
    \A r1, r2 \in auths :
        (r1.source = r2.source /\ r1.source_id = r2.source_id) => r1 = r2

\* C5: when CreateAuth returns nil the credential's ID is not 0 and its UserID
\* is the id of a committed user row; every committed credential row is owned
\* by a committed user row.
C5_SuccessHasIDAndOwner ==
    /\ \A c \in Calls :
        Succeeded(c) =>
            /\ auth[c].ID # 0
            /\ \E u \in users : u.id = auth[c].UserID
    /\ \A a \in auths : \E u \in users : u.id = a.user_id

\* C6: no step of a CreateAuth call but its successful commit changes the
\* committed tables; when the call returns an error, the step that returns
\* leaves them as they are, the transaction is closed and the rows it wrote
\* are discarded, so that none of them is in the committed tables.
C6_ErrorRollsBack ==
    [][\A c \in Calls :
        /\ (pc'[c] # pc[c] /\ ~Commits(c)) =>
            (users' = users /\ auths' = auths)
        /\ (Returns(c) /\ ret'[c] # Nil) =>
            /\ tx'[c] = NoTx
            /\ openTxs' = openTxs - (IF tx[c].open THEN 1 ELSE 0)
            /\ tx[c].users \cap users' = {}
            /\ tx[c].auths \cap auths' = {}]_vars

\* A call that inserted a user row and then failed: the row is nowhere.
C6_Witness ==
    \E c \in Calls :
        /\ pc[c] = "done"
        /\ ret[c] \notin {Nil, Pending}
        /\ NewUserAttached(c)
        /\ auth[c].User[1].ID # 0
        /\ \A u \in users : u.id # auth[c].User[1].ID
        /\ ~tx[c].open

\* C7: when the execution of an INSERT of CreateAuth has failed (the one kind
\* of failure after which the call goes on), the call does not commit: the
\* step that returns adds no row to the committed tables.
C7_FailedInsertNotCommitted ==
    [][\A c \in Calls :
        (Returns(c) /\ faults[c] > 0) =>
            (users' = users /\ auths' = auths)]_vars

\* C8: when no CreateAuth and no GetUserByID call is running, no transaction
\* is open.
C8_NoTransactionLeftOpen ==
    ((\A c \in Calls : pc[c] \in {"idle", "done"})
        /\ (\A r \in Reads : rpc[r] \in {"idle", "done"}))
    => openTxs = 0

\* C9: every row written inside a transaction carries the timestamp taken
\* when the transaction began, as created_at and as updated_at.
C9_OneTimestampPerTransaction ==
    \A c \in Calls :
        /\ \A u \in tx[c].users :
            u.created_at = tx[c].now /\ u.updated_at = tx[c].now
        /\ \A a \in tx[c].auths :
            a.created_at = tx[c].now /\ a.updated_at = tx[c].now

\* C10: after insert has returned nil for a record (the credential once the
\* call is at its commit, the attached User once the call inserts the
\* credential), the record's ID, CreatedAt and UpdatedAt are not 0.
C10_InsertSetsIDAndTimestamps ==
    \A c \in Calls :
        /\ pc[c] = "commit" =>
            /\ auth[c].ID # 0
            /\ auth[c].CreatedAt # 0
            /\ auth[c].UpdatedAt # 0
        /\ (pc[c] \in {"insertAuth", "commit"} /\ NewUserAttached(c)) =>
            /\ auth[c].User[1].ID # 0
            /\ auth[c].User[1].CreatedAt # 0
            /\ auth[c].User[1].UpdatedAt # 0

\* MUpdate acts in this step.
Updates == probe # NoProbe /\ probe'.op = "update" /\ probe'.n = probe.n + 1

\* The id and created_at of every row of a table.
CreatedAtOf(rows) == {[id |-> r.id, created_at |-> r.created_at] : r \in rows}

\* C11 as stated: every update sets the record's UpdatedAt to a value later
\* than the record's previous UpdatedAt and leaves CreatedAt as it was, on the
\* record and in every persisted row.
C11_UpdateAdvancesTimestamp ==
    [][Updates =>
        /\ probe'.entity.UpdatedAt > probe.entity.UpdatedAt
        /\ probe'.entity.CreatedAt = probe.entity.CreatedAt
        /\ CreatedAtOf(probe'.rows) = CreatedAtOf(probe.rows)]_vars

\* C11: every update sets the record's UpdatedAt to the wall-clock time of the
\* call, which is not earlier than the record's previous UpdatedAt, and leaves
\* CreatedAt as it was, on the record and in every persisted row; when the
\* UPDATE succeeds, the row with the record's id carries the new updated_at.
C11_UpdateStampsNow ==
    [][Updates =>
        /\ probe'.entity.UpdatedAt = clock
        /\ probe'.entity.UpdatedAt >= probe.entity.UpdatedAt
        /\ probe'.entity.CreatedAt = probe.entity.CreatedAt
        /\ CreatedAtOf(probe'.rows) = CreatedAtOf(probe.rows)
        /\ probe'.err = Nil =>
            \A q \in probe'.rows :
                q.id = probe'.entity.ID => q.updated_at = clock]_vars

\* An inserted record was updated later on: its row keeps created_at and
\* carries the later updated_at.
C11_Witness ==
    /\ probe # NoProbe
    /\ probe.op = "update"
    /\ probe.err = Nil
    /\ probe.entity.CreatedAt # 0
    /\ probe.entity.UpdatedAt > probe.entity.CreatedAt
    /\ \E r \in probe.rows :
        /\ r.id = probe.entity.ID
        /\ r.created_at = probe.entity.CreatedAt
        /\ r.updated_at = probe.entity.UpdatedAt

\* C12: a lookup the store answers returns an ENOTFOUND error exactly when no
\* row of the transaction's view matches the key, and otherwise a row that
\* matches it: the credential lookup wherever a call is about to make it, the
\* lookup by email in the step of CreateAuth that makes it (the call goes on
\* to insert the user exactly when it got ENOTFOUND), the lookup by id in the
\* step of GetUserByID that makes it; GetUserByID with an id that matches no
\* user row returns ENOTFOUND and no user.
C12_NotFoundIffNoMatch ==
    [][/\ \A c \in Calls :
          /\ pc[c] = "findAuth" =>
              \A res \in Found(findAuthBySourceID(tx[c], auth[c].Source,
                                                  auth[c].SourceID),
                               "Auth not found.") :
                  LET M == {a \in auths \cup tx[c].auths : SamePair(a, auth[c])} IN
                  /\ (ErrorCode(res.err) = ENOTFOUND) <=> (M = {})
                  /\ M # {} => (res.err = Nil /\ res.row[1] \in M)
          /\ (pc[c] = "findUser" /\ pc'[c] # "findUser" /\ faults'[c] = faults[c]) =>
              LET M == {u \in users \cup tx[c].users :
                            u.email = auth[c].User[1].Email} IN
              /\ (pc'[c] = "insertUser") <=> (M = {})
              /\ M # {} =>
                  \E u \in M : /\ auth'[c].User = <<UserOfRow(u)>>
                               /\ auth'[c].UserID = u.id
       /\ \A r \in Reads :
          (rpc[r] = "findUser" /\ rpc'[r] # "findUser" /\ rret'[r] # DriverErr) =>
              LET M == {u \in users : u.id = rid[r]} IN
              /\ (ErrorCode(rret'[r]) = ENOTFOUND) <=> (M = {})
              /\ M = {} => (rpc'[r] = "done" /\ ruser'[r] = <<>>)
              /\ M # {} => \E u \in M : ruser'[r] = <<UserOfRow(u)>>]_vars

\* GetUserByID was handed an id no user row has, while a user row is
\* committed, and returned ENOTFOUND and no user; a CreateAuth call found the
\* committed user by email.
C12_Witness ==
    /\ \E r \in Reads :
        /\ rpc[r] = "done"
        /\ ErrorCode(rret[r]) = ENOTFOUND
        /\ ruser[r] = <<>>
        /\ users # {}
    /\ \E c \in Calls :
        /\ pc[c] \in {"insertAuth", "commit", "done"}
        /\ NewUserAttached(c)
        /\ \E u \in users : auth[c].User = <<UserOfRow(u)>>

\* C13: the status written for an error whose code is one of the six kinds
\* tells the kind: 409 exactly for ECONFLICT, 400 for EINVALID, 404 for
\* ENOTFOUND, 501 for ENOTIMPLEMENTED, 401 for EUNAUTHORIZED and 500 for
\* EINTERNAL; the status written for any other code is 500.
C13_StatusOfKind ==
    probe.op = "encodeError" =>
        /\ probe.code \in Kinds =>
            /\ (probe.status = 409) <=> (probe.code = ECONFLICT)
            /\ (probe.status = 400) <=> (probe.code = EINVALID)
            /\ (probe.status = 404) <=> (probe.code = ENOTFOUND)
            /\ (probe.status = 501) <=> (probe.code = ENOTIMPLEMENTED)
            /\ (probe.status = 401) <=> (probe.code = EUNAUTHORIZED)
            /\ (probe.status = 500) <=> (probe.code = EINTERNAL)
        /\ probe.code \notin Kinds => probe.status = 500

\* The response to a not-implemented error has status 501.
C13_Witness ==
    /\ probe.op = "encodeError"
    /\ probe.err.type = "template"
    /\ probe.code = ENOTIMPLEMENTED
    /\ probe.status = 501

\* C14: once the context of a running CreateAuth call is cancelled, no step
\* of the call changes the committed tables (it commits nothing, in whole or
\* in part); the rollback discards the rows it wrote, and when the call
\* returns it returns an error, its transaction is closed and none of the
\* rows it wrote is committed.
C14_CancelledCallCommitsNothing ==
    [][\A c \in Calls :
        /\ (ctxDone[c] /\ pc'[c] # pc[c]) =>
            (users' = users /\ auths' = auths)
        /\ (ctxDone[c] /\ tx[c].open /\ ~tx'[c].open) =>
            /\ tx'[c].users = {} /\ tx'[c].auths = {}
            /\ tx[c].users \cap users' = {}
            /\ tx[c].auths \cap auths' = {}
        /\ (ctxDone[c] /\ Returns(c)) =>
            /\ ret'[c] # Nil
            /\ tx'[c] = NoTx
            /\ openTxs' = openTxs - (IF tx[c].open THEN 1 ELSE 0)]_vars

\* A call was cancelled after it had inserted its user, was rolled back and
\* has returned: the user row is not committed and no transaction is open.
C14_Witness ==
    \E c \in Calls :
        /\ pc[c] = "done"
        /\ ctxDone[c]
        /\ ErrorCode(ret[c]) = EINTERNAL
        /\ NewUserAttached(c)
        /\ auth[c].User[1].ID # 0
        /\ \A u \in users : u.id # auth[c].User[1].ID
        /\ openTxs = 0

\* C15: when GetUserByID returns nil, the user it returns is the user row
\* with the id asked for, and its Auths holds the credential rows whose
\* user_id is that id, all of them, no other and each once.
C15_AuthsAttachedOnce ==
    [][\A r \in Reads :
        (rpc[r] = "attachAgain" /\ rpc'[r] = "done" /\ rret'[r] = Nil) =>
            LET user == ruser'[r][1]
                owned == {AuthOfRow(a) : a \in {b \in auths : b.user_id = rid[r]}}
            IN  /\ user.ID = rid[r]
                /\ \E u \in users : [UserOfRow(u) EXCEPT !.Auths = user.Auths] = user
                /\ Range(user.Auths) = owned
                /\ Len(user.Auths) = Cardinality(owned)]_vars

\* GetUserByID has returned a user with two credentials.
C15_Witness ==
    \E r \in Reads :
        /\ rpc[r] = "done"
        /\ rret[r] = Nil
        /\ Len(ruser[r][1].Auths) = 2

\* C16: insert returns nil only for a statement that inserted a row: once a
\* call is at its commit, its transaction holds the credential row with the
\* record's id, and the user it attached is a row of the transaction or a
\* committed row.
C16_InsertReportsFailure ==
    \A c \in Calls :
        pc[c] = "commit" =>
            /\ \E a \in tx[c].auths : a.id = auth[c].ID
            /\ NewUserAttached(c) =>
                \E u \in users \cup tx[c].users : u.id = auth[c].User[1].ID

\* C17: when the lookup of the credential or of the user by email fails with
\* the store's error, CreateAuth returns in that step, before any insert, with
\* its transaction rolled back and the committed tables untouched; the error
\* it returns wraps the store's error under the label of the lookup and has
\* the same error code.  A lookup that is answered, by a row or by ENOTFOUND,
\* lets the call go on, and no call returns an ENOTFOUND error.
C17_LookupErrorAborts ==
    [][\A c \in Calls :
        /\ (pc[c] \in {"findAuth", "findUser"} /\ faults'[c] > faults[c]) =>
            /\ pc'[c] = "done"
            /\ ret'[c].cause = <<DriverErr>>
            /\ ret'[c].msg = (IF pc[c] = "findAuth"
                              THEN "find auth by source id failed"
                              ELSE "find user by email failed")
            /\ ErrorCode(ret'[c]) = ErrorCode(DriverErr)
            /\ tx[c].users = {} /\ tx[c].auths = {}
            /\ userSeq' = userSeq /\ authSeq' = authSeq
            /\ users' = users /\ auths' = auths
            /\ tx'[c] = NoTx
            /\ openTxs' = openTxs - 1
        /\ (pc[c] \in {"findAuth", "findUser"} /\ pc'[c] # pc[c]
                /\ faults'[c] = faults[c]) =>
            pc'[c] \in {"findUser", "insertUser", "insertAuth"}
        /\ Returns(c) => ErrorCode(ret'[c]) # ENOTFOUND]_vars

\* A call got ENOTFOUND for its credential, went on, and returned the wrapped
\* error of its failed lookup by email.
C17_Witness ==
    \E c \in Calls :
        /\ pc[c] = "done"
        /\ ret[c] = Wrap("find user by email failed", DriverErr)
        /\ \A a \in auths : ~SamePair(a, arg[c])
        /\ ~tx[c].open

\* A credential row with the pair of c's credential was committed when c was
\* called.
C18_Pre(c) == \E r \in before[c].auths : SamePair(r, arg[c])

C19_OneUserPerEmail ==
    /\ \A u1, u2 \in users :
        (u1.email = u2.email /\ u1.email # "") => u1 = u2
    /\ \A c, d \in Calls :
        (/\ Succeeded(c) /\ Succeeded(d)
         /\ faults[c] = 0 /\ faults[d] = 0
         /\ NewUserAttached(c) /\ NewUserAttached(d)
         /\ arg[c].User[1].Email = arg[d].User[1].Email
         /\ arg[c].User[1].Email # "") =>
            auth[c].UserID = auth[d].UserID

\* C20: two CreateAuth calls with UserID = 0, different (Source, SourceID)
\* pairs and attached Users whose email is empty that have returned nil after
\* no failed store call own their credentials through different user rows.
C20_EmptyEmailNotLinked ==
    \A c, d \in Calls :
        (/\ c # d
         /\ Succeeded(c) /\ Succeeded(d)
         /\ faults[c] = 0 /\ faults[d] = 0
         /\ NewUserAttached(c) /\ NewUserAttached(d)
         /\ arg[c].User[1].Email = "" /\ arg[d].User[1].Email = ""
         /\ ~(arg[c].Source = arg[d].Source /\ arg[c].SourceID = arg[d].SourceID)) =>
            auth[c].UserID # auth[d].UserID

MapperCall ==
    probe # NoProbe /\ probe'.op \in {"insert", "update"} /\ probe'.n = probe.n + 1

\* Some field of the record type has no db tag.
HasUntaggedField(type) ==
    \E i \in 1..Len(Fields(type)) : Fields(type)[i].db = <<>>

\* C22: insert and update on a record whose type has a field without a db tag
\* return an error of kind EINTERNAL that names the first such field, hand no
\* statement to the store and leave the table and its sequence as they were,
\* wherever in the type the field is declared.
C22_UntaggedFieldIsInternalError ==
    [][(MapperCall /\ HasUntaggedField(TypeOf(probe.entity))) =>
        /\ probe'.err # Nil
        /\ ErrorCode(probe'.err) = EINTERNAL
        /\ probe'.err.msg[2] = "Note"
        /\ probe'.sql = <<>>
        /\ probe'.rows = probe.rows
        /\ probe'.seq = probe.seq]_vars

\* update was called on a record whose last field has no db tag, after an
\* insert of it, and returned EINTERNAL without a statement.
C22_Witness ==
    /\ probe # NoProbe
    /\ probe.op = "update"
    /\ probe.n = 2
    /\ TypeOf(probe.entity) = "NoTagLast"
    /\ ErrorCode(probe.err) = EINTERNAL
    /\ probe.sql = <<>>
    /\ probe.rows = {}

\* The db tags a record type declares, in field order, without those in skips.
DeclaredWithout(type, skips) ==
    LET tags == [i \in 1..Len(Fields(type)) |-> Fields(type)[i].db[1]]
        Kept(t) == t \notin skips
    IN  SelectSeq(tags, Kept)

\* C23: for a record type whose fields all declare a column, insert's column
\* list is the declared columns in field order without the generated-id field
\* and the non-persisted fields, and update's SET list is that list without
\* company_id, created_at and created_by; so User.Auths and Auth.User are
\* never written as columns, and id appears only in update's WHERE clause.
C23_ColumnLists ==
    [][(MapperCall /\ ~HasUntaggedField(TypeOf(probe.entity))) =>
        LET type == TypeOf(probe.entity)
            inserted == DeclaredWithout(type, {"id,omitempty", "-"})
            Updatable(c) == c \notin {"company_id", "created_at", "created_by"}
        IN  /\ Len(probe'.sql) = 1
            /\ probe'.sql[1].table = probe.table
            /\ probe'.op = "insert" =>
                /\ probe'.sql[1].verb = "INSERT"
                /\ probe'.sql[1].columns = inserted
                /\ probe'.sql[1].where = <<>>
                /\ \A r \in probe'.rows \ probe.rows :
                      DOMAIN r = Range(inserted) \cup {"id"}
            /\ probe'.op = "update" =>
                /\ probe'.sql[1].verb = "UPDATE"
                /\ probe'.sql[1].columns = SelectSeq(inserted, Updatable)
                /\ probe'.sql[1].where = <<"id">>
            /\ \A i \in 1..Len(probe'.sql[1].columns) :
                  probe'.sql[1].columns[i] \notin {"-", "id", "id,omitempty"}
            /\ type = "User" =>
                probe'.sql[1].columns =
                    IF probe'.op = "insert"
                    THEN <<"name", "email", "created_at", "updated_at">>
                    ELSE <<"name", "email", "updated_at">>
            /\ type = "Auth" =>
                probe'.sql[1].columns =
                    IF probe'.op = "insert"
                    THEN <<"user_id", "source", "source_id", "tokens",
                           "created_at", "updated_at">>
                    ELSE <<"user_id", "source", "source_id", "tokens",
                           "updated_at">>]_vars

\* A record with company_id, created_by and a non-persisted field was inserted
\* and then updated: the UPDATE sets title and updated_at only.
C23_Witness ==
    /\ probe # NoProbe
    /\ probe.op = "update"
    /\ TypeOf(probe.entity) = "Scoped"
    /\ probe.err = Nil
    /\ probe.sql = <<UpdateSQL("scoped", <<"title", "updated_at">>)>>
    /\ \E r \in probe.rows :
          r.id = probe.entity.ID /\ r.company_id = 1 /\ r.created_by = 1

\* C24: decodeSayHelloRequest, given a request without the route variable
\* name, returns an error of kind EINVALID, whose status by ErrorStatusCode
\* is 400.
C24_MissingNameIsInvalid ==
    (probe.op = "decodeSayHelloRequest" /\ "name" \notin DOMAIN probe.vars) =>
        /\ probe.err # Nil
        /\ ErrorCode(probe.err) = EINVALID
        /\ ErrorStatusCode(ErrorCode(probe.err)) = 400

\* id is the identifier the record had before, or that of a committed row.
UnchangedOrCommitted(id, was, rows) ==
    id = was \/ \E r \in rows : r.id = id

\* C25: when CreateAuth has returned an error, the caller's credential record
\* carries no identifier of a row that was rolled back: its UserID, its ID and
\* the ID of its attached User have the values they had before the call (or,
\* for an adopted user, the id of a committed row).
C25_FailedCallLeavesNoStaleID ==
    \A c \in Calls :
        (pc[c] = "done" /\ ret[c] # Nil) =>
            /\ auth[c].ID = arg[c].ID
            /\ UnchangedOrCommitted(auth[c].UserID, arg[c].UserID, users)
            /\ auth[c].User # <<>> =>
                UnchangedOrCommitted(auth[c].User[1].ID, arg[c].User[1].ID, users)

====
